---------------------------- MODULE Spec2Model ----------------------------
(***************************************************************************)
(* Geometry core of bubble-trim: circle-circle overlap arcs, the sweep     *)
(* arc merger, the angular arc subtractor, the line/arc hit test and the   *)
(* Board that owns the live intersection arcs and each circle's boundary.  *)
(*                                                                         *)
(* Angles are integers on a grid of 2*AngleUnits steps per turn, so that   *)
(* Pi == AngleUnits and TwoPi == 2*AngleUnits; all angle arithmetic of the *)
(* code is then exact.  The tolerance 1e-9 of the merger is smaller than   *)
(* one grid step: "x > y + tolerance" is x > y, "|x - y| < tolerance" is   *)
(* x = y and "x < tolerance" is x <= 0.                                    *)
(*                                                                         *)
(* A point is known by its polar angle on the circle it lies on; a pair of *)
(* circles is known by the direction theta from the first centre to the    *)
(* second and the half-widths w1, w2 of the lens on either circle.         *)
(***************************************************************************)
EXTENDS Integers, Sequences, FiniteSets, TLC

\* ------------------------------------------------------------------ bounds
AngleUnits == 4        \* grid steps per half turn
NumCircles == 3        \* most circles of a board
MaxCrossings == 2      \* most crossing pairs of circles of a board
MaxLinePoints == 1     \* most points where one stroke meets circles
MaxArcs == 2           \* longest arc list given to the merger on its own
DirectionStep == 2     \* centre lines point along multiples of this many steps
MaxRadius == 3         \* largest radius of a circle given to the intersector
MaxDist == 6           \* largest distance of two centres given to it
ChaosCircles == 2      \* most circles asked of generateChaoticBoard
ChaosMaxRadius == 4    \* maxRadius given to generateChaoticBoard
ChaosSize == 6         \* usable width and height of its canvas
MaxPadding == 1        \* most white space at each end of a username
MaxNameChars == 21     \* most letters at the start of a username
MaxSpecial == 2        \* most characters of a username outside the name class
LivesDirectionStep == 4  \* centre lines of a board with lives: multiples of this
LivesLinePoints == 2   \* most points where a stroke meets circles, with lives
MaxMissedCuts == 2     \* most wrong cuts counted on a board with lives
MaxHints == 1          \* most hints asked on a board with lives
MaxFineWidth == 3      \* widest sliver of a circle, in units of 0.0005 rad
MaxOps == 3            \* most operations submitted to a GameDataManager
MaxLoaded == 1         \* most games a Firestore load returns
MaxClock == 3          \* last tick of Date.now()
MaxEndCalls == 3       \* most endGame calls after one startGame
MaxRecorded == 1       \* most hints, and most cuts, recorded in one stats record
MaxSubmitted == 2      \* most records submitted to the GameDataManager
MaxStarts == 3         \* most Countdown.start calls
MaxAttempts == 3       \* most login, guest and logout calls on an AuthManager

AttemptsPerCircle == 20    \* attempts < n * 20
minUsernameLength == 5     \* SimpleAuthProvider: default minLength
maxUsernameLength == 20    \* SimpleAuthProvider: default maxLength
LivesBudget == 3           \* missedCuts + hintsUsed >= 3
FinePi == 6283             \* Math.PI in units of 0.0005 rad
RemovalAllowance == 2      \* + 0.001, in units of 0.0005 rad
CountdownFrom == 3         \* let count = 3

Pi == AngleUnits
TwoPi == 2 * Pi

VARIABLES
    circles,        \* Board.circles: circles[i] is circle.arc of circle i
    intersections,  \* Board.intersections: the live intersection arcs
    totalCuts,      \* Board.totalCuts
    lastCall,       \* the last Board method called and what it returned
    sub,            \* one call of subtractArc: its arguments and result
    join,           \* one call of joinIntersections: argument and results
    game,           \* GameState: isPlaying, lastBoard, stats, result panels
    pair,           \* one call of intersectTwoCircles on two circles
    chaos,          \* one call of generateChaoticBoard: its loop variables
    provider,       \* one call of SimpleAuthProvider.authenticate
    lives,          \* Board with lives, hints and circle removal
    removal,        \* calculateAllIntersections with removal, on two circles
    data,           \* GameDataManager: the dataLock chain and its operations
    collector,      \* StatsCollector: its stats record and what it submitted
    countdown,      \* Countdown: its fields, the interval timers, the callbacks run
    auth            \* AuthManager and PlayerIdentity: fields and attempts in flight

vars == <<circles, intersections, totalCuts, lastCall, sub, join, game, pair,
          chaos, provider, lives, removal, data, collector, countdown, auth>>

\* ------------------------------------------------------------ primitives
\* The JavaScript remainder a % m: it has the sign of the dividend.
JsRem(a, m) == IF a >= 0 THEN a % m ELSE -((-a) % m)

\* normalize = (angle % TWO_PI + TWO_PI) % TWO_PI
normalize(angle) == JsRem(JsRem(angle, TwoPi) + TwoPi, TwoPi)

\* Math.atan2 gives an angle in (-Pi, Pi].
atan2(angle) ==
    LET n == normalize(angle) IN IF n > Pi THEN n - TwoPi ELSE n

AtanAngles == (1 - Pi)..Pi

Arc(c, s, e) == [circle |-> c, startAngle |-> s, endAngle |-> e]

RECURSIVE Flatten(_)
Flatten(ss) == IF ss = <<>> THEN <<>> ELSE Head(ss) \o Flatten(Tail(ss))

\* ---------------------------------------------------------- isPointOnArc
\* Faulty variant: an arc that passes the seam is tested like one that
\* does not.
isPointOnArcNoWrap(angle, arc) ==
    LET normAngle == JsRem(angle + TwoPi, TwoPi)
        normStart == JsRem(arc.startAngle + TwoPi, TwoPi)
        normStop == JsRem(arc.endAngle + TwoPi, TwoPi)
    IN  normAngle >= normStart /\ normAngle <= normStop

\* angle is Math.atan2 of the point about the arc's centre.
isPointOnArc(angle, arc) ==
    LET normAngle == JsRem(angle + TwoPi, TwoPi)
        normStart == JsRem(arc.startAngle + TwoPi, TwoPi)
        normStop == JsRem(arc.endAngle + TwoPi, TwoPi)
    IN  IF normStart < normStop
        THEN normAngle >= normStart /\ normAngle <= normStop
        ELSE normAngle >= normStart \/ normAngle <= normStop

\* A stroke is the set of points <<circle, angle>> of circles that lie on
\* its supporting line and inside its inflated bounding box.
LinePointsOn(line, c) == {p[2] : p \in {q \in line : q[1] = c}}

lineIntersectsArc(line, arc) ==
    \E angle \in LinePointsOn(line, arc.circle) : isPointOnArc(angle, arc)

\* ------------------------------------------------------------ subtractArc
\* Faulty variant: the two pieces left around B take each other's inner end.
subtractIntervalSwapped(aStart, aStop, bStart, bStop) ==
    IF bStop <= aStart \/ bStart >= aStop
    THEN << <<aStart, aStop>> >>
    ELSE IF bStart <= aStart /\ bStop >= aStop THEN <<>>
    ELSE IF bStart <= aStart /\ bStop < aStop THEN << <<bStop, aStop>> >>
    ELSE IF bStart > aStart /\ bStop >= aStop THEN << <<aStart, bStart>> >>
    ELSE IF bStart > aStart /\ bStop < aStop
         THEN << <<aStart, bStop>>, <<bStart, aStop>> >>
    ELSE << <<aStart, aStop>> >>

subtractInterval(aStart, aStop, bStart, bStop) ==
    IF bStop <= aStart \/ bStart >= aStop
    THEN << <<aStart, aStop>> >>
    ELSE IF bStart <= aStart /\ bStop >= aStop THEN <<>>
    ELSE IF bStart <= aStart /\ bStop < aStop THEN << <<bStop, aStop>> >>
    ELSE IF bStart > aStart /\ bStop >= aStop THEN << <<aStart, bStart>> >>
    ELSE IF bStart > aStart /\ bStop < aStop
         THEN << <<aStart, bStart>>, <<bStop, aStop>> >>
    ELSE << <<aStart, aStop>> >>

\* for (const seg of result) newResult.push(...subtractInterval(seg, b))
SubtractFromAll(result, b) ==
    Flatten([k \in 1..Len(result) |->
        subtractInterval(result[k][1], result[k][2], b[1], b[2])])

RECURSIVE SubtractIntervals(_, _)
SubtractIntervals(result, bIntervals) ==
    IF bIntervals = <<>> THEN result
    ELSE SubtractIntervals(SubtractFromAll(result, Head(bIntervals)),
                           Tail(bIntervals))

subtractArc(arcA, arcB) ==
    LET bStart == normalize(arcB.startAngle)
        bStop == normalize(arcB.endAngle)
        bIntervals == IF bStop >= bStart
                      THEN << <<bStart, bStop>> >>
                      ELSE << <<bStart, TwoPi>>, <<0, bStop>> >>
        result == SubtractIntervals(
                      << <<arcA.startAngle, arcA.endAngle>> >>, bIntervals)
        kept == SelectSeq(result,
                   LAMBDA seg : seg[2] > seg[1] /\ seg[1] >= 0 /\ seg[2] <= TwoPi)
    IN  [k \in 1..Len(kept) |-> Arc(arcA.circle, kept[k][1], kept[k][2])]


\* ------------------------------------------------- getDirectedArcMidpoint
getDirectedArcMidpoint(startAngle, stopAngle) ==
    LET normStart == normalize(startAngle)
        normStop == normalize(stopAngle)
        span == IF normStop - normStart < 0
                THEN normStop - normStart + TwoPi
                ELSE normStop - normStart
        midAngle == normStart + span \div 2
    IN  IF midAngle > Pi THEN midAngle - TwoPi ELSE midAngle

\* ------------------------------------------------- getCircleIntersections
\* The relative position of two circles: NoCross when d > r1 + r2 or
\* d < |r1 - r2|; otherwise the direction theta from centre 1 to centre 2
\* and the half-widths w1 = atan2(h, a) and w2 = atan2(h, d - a) of the
\* lens seen from either centre (h = 0 at tangency).
NoCross == [theta |-> 0, w1 |-> -1, w2 |-> -1]

Directions == {t \in AtanAngles : t % DirectionStep = 0}

CrossGeoms ==
    {[theta |-> t, w1 |-> a, w2 |-> b] : t \in Directions, a \in 1..(Pi - 1),
                                          b \in 1..(Pi - 1)}

TangentGeoms ==
    {[theta |-> t, w1 |-> w[1], w2 |-> w[2]] :
        t \in Directions, w \in {<<0, 0>>, <<Pi, 0>>, <<0, Pi>>}}

PairGeoms == {g \in CrossGeoms : g.w1 + g.w2 < Pi} \cup TangentGeoms

\* Two circles of one centre and one radius: a = 0 / 0 is NaN, and so are
\* h and both points.
NaNCross == [theta |-> 0, w1 |-> -2, w2 |-> -2]

Abs(x) == IF x < 0 THEN -x ELSE x

\* The half-widths that agree with the sign of the distance num / (2 * d)
\* from a centre to the chord: below a quarter turn when the chord lies
\* on the side of the other centre, above it when it lies behind.
WidthsFor(num) ==
    {w \in 1..(Pi - 1) : /\ num > 0 => 2 * w <= Pi
                         /\ num < 0 => 2 * w >= Pi
                         /\ num = 0 => Abs(2 * w - Pi) <= 1}

\* Faulty variant: a circle inside the other is not told apart.
PlacePairNoNestedCheck(d, r1, r2, theta) ==
    IF d > r1 + r2 THEN {NoCross}
    ELSE IF d < Abs(r1 - r2) \/ d = 0 THEN {NaNCross}
    ELSE IF d = r1 + r2 THEN {[theta |-> theta, w1 |-> 0, w2 |-> 0]}
    ELSE IF d = r2 - r1 THEN {[theta |-> theta, w1 |-> Pi, w2 |-> 0]}
    ELSE IF d = r1 - r2 THEN {[theta |-> theta, w1 |-> 0, w2 |-> Pi]}
    ELSE {g \in CrossGeoms :
            /\ g.theta = theta
            /\ g.w1 \in WidthsFor(d * d - r2 * r2 + r1 * r1)
            /\ g.w2 \in WidthsFor(d * d - r1 * r1 + r2 * r2)
            /\ g.w1 + g.w2 < Pi}

\* What getCircleIntersections computes of two circles of radii r1 and r2
\* whose centres are d apart in direction theta: nothing when
\* d > r1 + r2 or d < |r1 - r2|; otherwise a and h, that is w1 and w2.
\* h = 0 when d = r1 + r2 (a = r1, d - a = r2), when d = r2 - r1
\* (a = -r1) and when d = r1 - r2 (d - a = -r2).
PlacePair(d, r1, r2, theta) ==
    IF d > r1 + r2 \/ d < Abs(r1 - r2) THEN {NoCross}
    ELSE IF d = 0 THEN {NaNCross}
    ELSE IF d = r1 + r2 THEN {[theta |-> theta, w1 |-> 0, w2 |-> 0]}
    ELSE IF d = r2 - r1 THEN {[theta |-> theta, w1 |-> Pi, w2 |-> 0]}
    ELSE IF d = r1 - r2 THEN {[theta |-> theta, w1 |-> 0, w2 |-> Pi]}
    ELSE {g \in CrossGeoms :
            /\ g.theta = theta
            /\ g.w1 \in WidthsFor(d * d - r2 * r2 + r1 * r1)
            /\ g.w2 \in WidthsFor(d * d - r1 * r1 + r2 * r2)
            /\ g.w1 + g.w2 < Pi}

\* A point of both circles: a1 is its angle about centre 1, a2 about
\* centre 2.  p1 = mid + h*(dy, -dx)/d lies clockwise of the centre line
\* seen from centre 1, p2 counter-clockwise.
getCircleIntersections(g) ==
    IF g = NoCross THEN <<>>
    ELSE IF g = NaNCross THEN << [a1 |-> "NaN", a2 |-> "NaN"],
                                 [a1 |-> "NaN", a2 |-> "NaN"] >>
    ELSE << [a1 |-> atan2(g.theta - g.w1), a2 |-> atan2(g.theta + Pi + g.w2)],
            [a1 |-> atan2(g.theta + g.w1), a2 |-> atan2(g.theta + Pi - g.w2)] >>

\* The angular distance between two directions, in 0..Pi.
AngDist(a, b) ==
    LET d == normalize(a - b) IN IF d > Pi THEN TwoPi - d ELSE d

\* dist < otherCircle.radius for the point of circle 1 (side = 1) or of
\* circle 2 (side = 2) at the arc's directed midpoint: that point is
\* strictly inside the other circle exactly when it is strictly inside
\* the lens, whose middle faces the other centre.
\* With NaN coordinates dist is NaN and dist < radius is false.
\* Faulty variant: a midpoint on the other circle counts as inside it.
isMidpointInsideOrOn(arc, g, side) ==
    LET midAngle == getDirectedArcMidpoint(arc.startAngle, arc.endAngle)
    IN  IF g = NaNCross THEN FALSE
        ELSE IF side = 1
        THEN AngDist(midAngle, g.theta) <= g.w1
        ELSE AngDist(midAngle, g.theta + Pi) <= g.w2

isMidpointInside(arc, g, side) ==
    LET midAngle == getDirectedArcMidpoint(arc.startAngle, arc.endAngle)
    IN  IF g = NaNCross THEN FALSE
        ELSE IF side = 1
        THEN AngDist(midAngle, g.theta) < g.w1
        ELSE AngDist(midAngle, g.theta + Pi) < g.w2

\* ---------------------------------------------------- intersectTwoCircles
intersectTwoCircles(circle1, circle2, g) ==
    LET intersectionPoints == getCircleIntersections(g)
    IN  IF Len(intersectionPoints) < 2 THEN <<>>
        ELSE
        LET p1 == intersectionPoints[1]
            p2 == intersectionPoints[2]
            arcs == << Arc(circle1, p1.a1, p2.a1), Arc(circle1, p2.a1, p1.a1),
                       Arc(circle2, p1.a2, p2.a2), Arc(circle2, p2.a2, p1.a2) >>
        IN  SelectSeq(SubSeq(arcs, 1, 2),
                      LAMBDA arc : isMidpointInside(arc, g, 1))
            \o SelectSeq(SubSeq(arcs, 3, 4),
                      LAMBDA arc : isMidpointInside(arc, g, 2))

\* ---------------------------------------------------- joinOverlappingArcs
\* points.push(start event); points.push(end event) for every arc
RECURSIVE EventPoints(_)
EventPoints(arcs) ==
    IF arcs = <<>> THEN <<>>
    ELSE << [angle |-> normalize(Head(arcs).startAngle), type |-> "start"],
            [angle |-> normalize(Head(arcs).endAngle), type |-> "end"] >>
         \o EventPoints(Tail(arcs))

RECURSIVE WrapCount(_)
WrapCount(arcs) ==
    IF arcs = <<>> THEN 0
    ELSE (IF normalize(Head(arcs).startAngle) > normalize(Head(arcs).endAngle)
          THEN 1 ELSE 0) + WrapCount(Tail(arcs))

\* Faulty variant: the sweep starts uncovered at the seam.
NoWrapCount(arcs) == 0

wrapCounter(arcs) == WrapCount(arcs)

\* points.sort((a, b) => a.angle - b.angle): Array.prototype.sort is stable.
RECURSIVE InsertSorted(_, _)
InsertSorted(sorted, pt) ==
    IF sorted = <<>> THEN <<pt>>
    ELSE IF Head(sorted).angle <= pt.angle
         THEN <<Head(sorted)>> \o InsertSorted(Tail(sorted), pt)
         ELSE <<pt>> \o sorted

RECURSIVE SortPoints(_)
SortPoints(points) ==
    IF points = <<>> THEN <<>>
    ELSE InsertSorted(SortPoints(SubSeq(points, 1, Len(points) - 1)),
                      points[Len(points)])

\* Faulty variant: a covered segment never extends the arc before it.
SweepStepNoExtend(points, i, st, circle) ==
    LET point == points[i]
        prevAngle == IF i = 1 THEN 0 ELSE points[i - 1].angle
        merged2 ==
            IF st.activeArcs > 0 /\ point.angle > prevAngle
            THEN Append(st.merged, Arc(circle, prevAngle, point.angle))
            ELSE st.merged
    IN  [merged |-> merged2,
         activeArcs |-> st.activeArcs + (IF point.type = "start" THEN 1 ELSE -1)]

\* One turn of the sweep loop: st = [merged, activeArcs].
SweepStep(points, i, st, circle) ==
    LET point == points[i]
        prevAngle == IF i = 1 THEN 0 ELSE points[i - 1].angle
        merged == st.merged
        n == Len(merged)
        merged2 ==
            IF st.activeArcs > 0 /\ point.angle > prevAngle
            THEN IF n > 0 /\ merged[n].endAngle = prevAngle
                 THEN [merged EXCEPT ![n].endAngle = point.angle]
                 ELSE Append(merged, Arc(circle, prevAngle, point.angle))
            ELSE merged
    IN  [merged |-> merged2,
         activeArcs |-> st.activeArcs + (IF point.type = "start" THEN 1 ELSE -1)]

RECURSIVE Sweep(_, _, _, _)
Sweep(points, i, st, circle) ==
    IF i > Len(points) THEN st
    ELSE Sweep(points, i + 1, SweepStep(points, i, st, circle), circle)

\* Faulty variant: the segment from the last point to 2*Pi is forgotten.
SkipClose(points, st, circle) == st.merged

\* Handle the final segment from the last point to 2*Pi.
CloseAtTwoPi(points, st, circle) ==
    LET lastPointAngle == points[Len(points)].angle
        merged == st.merged
        n == Len(merged)
    IN  IF st.activeArcs > 0 /\ TwoPi > lastPointAngle
        THEN IF n > 0 /\ merged[n].endAngle = lastPointAngle
             THEN [merged EXCEPT ![n].endAngle = TwoPi]
             ELSE Append(merged, Arc(circle, lastPointAngle, TwoPi))
        ELSE merged

\* Faulty variant: arcs touching at the seam are left apart.
KeepSeam(merged) == merged

\* Final check: if the first and last arcs touch at the seam, merge them.
MergeSeam(merged) ==
    LET n == Len(merged) IN
    IF n > 1 /\ merged[n].endAngle = TwoPi /\ merged[1].startAngle <= 0
    THEN [SubSeq(merged, 1, n - 1) EXCEPT ![1].startAngle = merged[n].startAngle]
    ELSE merged

joinOverlappingArcs(arcs) ==
    IF Len(arcs) <= 1 THEN arcs
    ELSE
    LET circle == arcs[1].circle
        points == SortPoints(EventPoints(arcs))
        st == Sweep(points, 1, [merged |-> <<>>, activeArcs |-> wrapCounter(arcs)],
                    circle)
    IN  MergeSeam(CloseAtTwoPi(points, st, circle))

\* ------------------------------------------------------ joinIntersections
\* The keys of arcsByCircle in insertion order.
RECURSIVE CircleOrder(_, _)
CircleOrder(arcs, seen) ==
    IF arcs = <<>> THEN seen
    ELSE CircleOrder(Tail(arcs),
            IF \E k \in 1..Len(seen) : seen[k] = Head(arcs).circle
            THEN seen ELSE Append(seen, Head(arcs).circle))

joinIntersections(arcs) ==
    IF Len(arcs) = 0 THEN <<>>
    ELSE
    LET order == CircleOrder(arcs, <<>>)
    IN  Flatten([k \in 1..Len(order) |->
            joinOverlappingArcs(
                SelectSeq(arcs, LAMBDA arc : arc.circle = order[k]))])


\* ------------------------------------------------------------------ Circle
\* Circle.constructor: the boundary starts as the full circle [0, 2*Pi].
NewCircle(c) == << Arc(c, 0, TwoPi) >>

\* Faulty variant: the piece is cut from the full circle, not from this.arc.
removePieceFromFull(arcList, arc1) == subtractArc(Arc(arc1.circle, 0, TwoPi), arc1)

\* Circle.removePiece: the new value of this.arc
removePiece(arcList, arc1) ==
    Flatten([k \in 1..Len(arcList) |-> subtractArc(arcList[k], arc1)])

\* Faulty variant: only the first boundary arc is tested.
intersectFirstOnly(arcList, line) ==
    Len(arcList) > 0 /\ lineIntersectsArc(line, arcList[1])

\* Circle.intersect
intersect(arcList, line) ==
    \E k \in 1..Len(arcList) : lineIntersectsArc(line, arcList[k])

\* ------------------------------------------------------------------- Board
\* The pairs (i, j) in the order of the two nested loops.
PairSeq(n) ==
    Flatten([i \in 1..n |-> [d \in 1..(n - i) |-> <<i, i + d>>]])

Pairs(n) == {p \in (1..n) \X (1..n) : p[1] < p[2]}

\* Board.calculateAllIntersections; geom[p] places the pair p of circles.
calculateAllIntersections(n, geom) ==
    LET pairs == PairSeq(n)
        found == [k \in 1..Len(pairs) |->
                    LET res == intersectTwoCircles(pairs[k][1], pairs[k][2],
                                                   geom[pairs[k]])
                    IN  IF Len(res) = 2 THEN res ELSE <<>>]
    IN  joinIntersections(Flatten(found))

getRemainingCuts == Len(intersections)

\* Faulty variant: the digits after the second decimal are cut off.
ToFixed2Truncated(num, den) == (num * 100) \div den

\* Number.prototype.toFixed(2) of a ratio num/den >= 0, in hundredths.
ToFixed2(num, den) == (2 * num * 100 + den) \div (2 * den)

\* Faulty variant: the share still to cut, not the share cut.
getProgressInverted ==
    IF totalCuts = 0 THEN "NaN"
    ELSE ToFixed2(getRemainingCuts * 100, totalCuts)

\* Board.getProgress: 0/0 is NaN, whose toFixed is the string "NaN".
getProgress ==
    IF totalCuts = 0 THEN "NaN"
    ELSE ToFixed2((totalCuts - getRemainingCuts) * 100, totalCuts)

\* Faulty variant: one arc may be left.
BoardCheckVictoryLenient(arcs) == Len(arcs) <= 1

\* Board.checkVictory
BoardCheckVictory(arcs) == Len(arcs) = 0

\* Faulty variant: only the first circle is tested.
BoardCheckLossFirstCircle(cs, line) == Len(cs) > 0 /\ intersect(cs[1], line)

\* Board.checkLoss
BoardCheckLoss(cs, line) == \E c \in 1..Len(cs) : intersect(cs[c], line)

\* The filter callback of Board.checkIntersection applied to arc i;
\* st = [kept, circles, hitCount].
FilterStep(line, arcs, i, st) ==
    LET intersection == arcs[i]
        c == intersection.circle
    IN  IF lineIntersectsArc(line, intersection)
        THEN [kept |-> st.kept,
              circles |-> [st.circles EXCEPT
                              ![c] = removePiece(st.circles[c], intersection)],
              hitCount |-> st.hitCount + 1]
        ELSE [kept |-> Append(st.kept, intersection),
              circles |-> st.circles,
              hitCount |-> st.hitCount]

RECURSIVE FilterIntersections(_, _, _, _)
FilterIntersections(line, arcs, i, st) ==
    IF i > Len(arcs) THEN st
    ELSE FilterIntersections(line, arcs, i + 1, FilterStep(line, arcs, i, st))

\* The strokes: at most MaxLinePoints points, at most two on one circle.
LinePoints == (1..Len(circles)) \X AtanAngles

RECURSIVE SetsUpTo(_, _)
SetsUpTo(S, k) ==
    IF k = 0 THEN {{}}
    ELSE LET smaller == SetsUpTo(S, k - 1)
         IN  smaller \cup {T \cup {x} : T \in smaller, x \in S}

Lines ==
    {line \in SetsUpTo(LinePoints, MaxLinePoints) :
        \A c \in 1..Len(circles) : Cardinality(LinePointsOn(line, c)) <= 2}

NoCall == [op |-> "none", result |-> 0, hits |-> {},
           lossBefore |-> FALSE, lossAfter |-> FALSE]

Returned(op, result) == [NoCall EXCEPT !.op = op, !.result = result]

IdleSub == [phase |-> "idle"]
IdleJoin == [phase |-> "idle"]
IdleGame == [phase |-> "idle"]
IdlePair == [phase |-> "idle"]
IdleChaos == [phase |-> "idle"]
IdleProvider == [phase |-> "idle"]
IdleLives == [phase |-> "idle"]
IdleRemoval == [phase |-> "idle"]
IdleData == [phase |-> "idle"]
IdleCollector == [phase |-> "idle"]
IdleCountdown == [phase |-> "idle"]
IdleAuth == [phase |-> "idle"]

\* new Board(p, circlesData): a board of n circles of which the pairs in
\* crossing meet (cross or touch), every other pair being apart or nested.
Init ==
    \E n \in 0..NumCircles :
    \E crossing \in SUBSET Pairs(n) :
        /\ Cardinality(crossing) <= MaxCrossings
        /\ \E placed \in [crossing -> PairGeoms] :
            LET geom == [p \in Pairs(n) |->
                            IF p \in crossing THEN placed[p] ELSE NoCross]
            IN  /\ circles = [c \in 1..n |-> NewCircle(c)]
                /\ intersections = calculateAllIntersections(n, geom)
                /\ totalCuts = Len(calculateAllIntersections(n, geom))
        /\ lastCall = NoCall
        /\ sub = IdleSub
        /\ join = IdleJoin
        /\ game = IdleGame
        /\ pair = IdlePair
        /\ chaos = IdleChaos
        /\ provider = IdleProvider
        /\ lives = IdleLives
        /\ removal = IdleRemoval
        /\ data = IdleData
        /\ collector = IdleCollector
        /\ countdown = IdleCountdown
        /\ auth = IdleAuth

\* Board.checkIntersection(line).  lastCall also keeps what
\* Board.checkLoss(line) answers just before and just after the call, and
\* which live arcs (by position) the stroke meets.
CheckIntersection ==
    \E line \in Lines :
        LET st == FilterIntersections(line, intersections, 1,
                      [kept |-> <<>>, circles |-> circles, hitCount |-> 0])
        IN  /\ intersections' = st.kept
            /\ circles' = st.circles
            /\ lastCall' = [op |-> "checkIntersection",
                            result |-> st.hitCount,
                            hits |-> {i \in 1..Len(intersections) :
                                        lineIntersectsArc(line, intersections[i])},
                            lossBefore |-> BoardCheckLoss(circles, line),
                            lossAfter |-> BoardCheckLoss(st.circles, line)]
            /\ UNCHANGED <<totalCuts, sub, join, game, pair, chaos, provider, lives, removal, data, collector, countdown, auth>>

\* Board.checkLoss(line).  lastCall also keeps which boundary arcs, by
\* circle and position, the stroke meets.
CheckLoss ==
    \E line \in Lines :
        /\ lastCall' = [Returned("checkLoss", BoardCheckLoss(circles, line))
                            EXCEPT !.hits =
                                {ck \in (1..Len(circles)) \X (1..TwoPi) :
                                    /\ ck[2] <= Len(circles[ck[1]])
                                    /\ lineIntersectsArc(line,
                                                         circles[ck[1]][ck[2]])}]
        /\ UNCHANGED <<circles, intersections, totalCuts, sub, join,
                       game, pair, chaos, provider, lives, removal, data, collector, countdown, auth>>

\* Board.getProgress()
GetProgress ==
    /\ lastCall' = Returned("getProgress", getProgress)
    /\ UNCHANGED <<circles, intersections, totalCuts, sub, join,
                   game, pair, chaos, provider, lives, removal, data, collector, countdown, auth>>

\* Board.checkVictory()
CheckVictory ==
    /\ lastCall' = Returned("checkVictory", BoardCheckVictory(intersections))
    /\ UNCHANGED <<circles, intersections, totalCuts, sub, join,
                   game, pair, chaos, provider, lives, removal, data, collector, countdown, auth>>

Next == CheckIntersection \/ CheckLoss \/ GetProgress \/ CheckVictory

Spec == Init /\ [][Next]_vars


\* --------------------------------------------- subtractArc called directly
\* The arcs intersectTwoCircles can return for circle c: from p1 to p2 when
\* c is its first circle and from p2 to p1 when c is its second, that is
\* the lens of half-width w, 0 < w < Pi, about a centre line in any
\* direction t.
RawArcsOn(c) ==
    {Arc(c, atan2(t - w), atan2(t + w)) : t \in AtanAngles, w \in 1..(Pi - 1)}

\* Any arc between two different atan2 angles.
AtanArcs == {Arc(1, s, e) : s \in AtanAngles, e \in AtanAngles} \ 
            {Arc(1, s, s) : s \in AtanAngles}

\* The arcs joinOverlappingArcs can build: inside [0, 2*Pi], or re-anchored
\* across the seam by its final check.
MergedArcs ==
    {a \in {Arc(1, s, e) : s \in 0..TwoPi, e \in 0..TwoPi} :
        \/ a.startAngle < a.endAngle
        \/ 0 < a.endAngle /\ a.endAngle < a.startAngle /\ a.startAngle < TwoPi}

\* The arcs of a circle's boundary list: 0 <= start < end <= 2*Pi.
MinuendArcs ==
    {a \in {Arc(1, s, e) : s \in 0..TwoPi, e \in 0..TwoPi} :
        a.startAngle < a.endAngle}

SubInit ==
    /\ \E a \in MinuendArcs \cup AtanArcs \cup MergedArcs :
       \E b \in AtanArcs \cup MergedArcs :
            sub = [phase |-> "args", a |-> a, b |-> b, out |-> <<>>]
    /\ circles = <<>>
    /\ intersections = <<>>
    /\ totalCuts = 0
    /\ lastCall = NoCall
    /\ join = IdleJoin
    /\ game = IdleGame
    /\ pair = IdlePair
    /\ chaos = IdleChaos
    /\ provider = IdleProvider
    /\ lives = IdleLives
    /\ removal = IdleRemoval
    /\ data = IdleData
    /\ collector = IdleCollector
    /\ countdown = IdleCountdown
    /\ auth = IdleAuth

SubtractArcCall ==
    /\ sub.phase = "args"
    /\ sub' = [sub EXCEPT !.phase = "done", !.out = subtractArc(sub.a, sub.b)]
    /\ UNCHANGED <<circles, intersections, totalCuts, lastCall, join,
                   game, pair, chaos, provider, lives, removal, data, collector, countdown, auth>>

SubNext == SubtractArcCall

SpecSub == SubInit /\ [][SubNext]_vars

\* --------------------------------------- joinIntersections called directly
\* The circles of an arc list.
CirclesOf(arcList) == {arcList[k].circle : k \in 1..Len(arcList)}

\* joinIntersections tells circles apart by identity only, so the circles
\* of an arc list are numbered as they first appear.
NumberedInOrder(arcList) ==
    \A k \in 1..Len(arcList) :
        arcList[k].circle <= Cardinality(CirclesOf(SubSeq(arcList, 1, k - 1))) + 1

JoinInit ==
    /\ \E n \in 0..MaxArcs :
       \E arcs \in [1..n -> UNION {RawArcsOn(c) : c \in 1..n}] :
         /\ NumberedInOrder(arcs)
         /\ join = [phase |-> "args", arcs |-> arcs, out |-> <<>>,
                    again |-> <<>>]
    /\ circles = <<>>
    /\ intersections = <<>>
    /\ totalCuts = 0
    /\ lastCall = NoCall
    /\ sub = IdleSub
    /\ game = IdleGame
    /\ pair = IdlePair
    /\ chaos = IdleChaos
    /\ provider = IdleProvider
    /\ lives = IdleLives
    /\ removal = IdleRemoval
    /\ data = IdleData
    /\ collector = IdleCollector
    /\ countdown = IdleCountdown
    /\ auth = IdleAuth

JoinCall ==
    /\ join.phase = "args"
    /\ join' = [join EXCEPT !.phase = "joined",
                            !.out = joinIntersections(join.arcs)]
    /\ UNCHANGED <<circles, intersections, totalCuts, lastCall, sub,
                   game, pair, chaos, provider, lives, removal, data, collector, countdown, auth>>

JoinAgain ==
    /\ join.phase = "joined"
    /\ join' = [join EXCEPT !.phase = "rejoined",
                            !.again = joinIntersections(join.out)]
    /\ UNCHANGED <<circles, intersections, totalCuts, lastCall, sub,
                   game, pair, chaos, provider, lives, removal, data, collector, countdown, auth>>

JoinNext == JoinCall \/ JoinAgain

SpecJoin == JoinInit /\ [][JoinNext]_vars

\* --------------------------------------------------------------- GameState
\* The board data of a level: n circles and the relative position of every
\* pair of them, the pairs outside placed being apart or nested.
Level(n, placed) ==
    [n |-> n,
     geom |-> [p \in Pairs(n) |->
                    IF p \in DOMAIN placed THEN placed[p] ELSE NoCross]]

\* StatsCollector.constructor / startGame: endTime undefined, counter 0.
NewStats == [ended |-> FALSE, successfulIntersections |-> 0]

\* StatsCollector.endGame
endGame(stats) == IF stats.ended THEN stats ELSE [stats EXCEPT !.ended = TRUE]

\* The fields of GameState after its constructor or loadMap(level);
\* declared lists the result panels shown since then.
NewGame(level) ==
    [phase |-> "playing", isPlaying |-> TRUE, lastBoard |-> level,
     stats |-> NewStats, declared |-> {}]

\* new GameState(p, initialBoard, soundManager, camera)
GameInit ==
    /\ \E n \in 0..NumCircles :
       \E crossing \in SUBSET Pairs(n) :
        /\ Cardinality(crossing) <= MaxCrossings
        /\ \E placed \in [crossing -> PairGeoms] :
            LET level == Level(n, placed)
            IN  /\ circles = [c \in 1..level.n |-> NewCircle(c)]
                /\ intersections =
                        calculateAllIntersections(level.n, level.geom)
                /\ totalCuts =
                        Len(calculateAllIntersections(level.n, level.geom))
                /\ game = NewGame(level)
    /\ lastCall = NoCall
    /\ sub = IdleSub
    /\ join = IdleJoin
    /\ pair = IdlePair
    /\ chaos = IdleChaos
    /\ provider = IdleProvider
    /\ lives = IdleLives
    /\ removal = IdleRemoval
    /\ data = IdleData
    /\ collector = IdleCollector
    /\ countdown = IdleCountdown
    /\ auth = IdleAuth

\* Faulty variant: one success recorded for every stroke, hit or miss.
handleIntersectionPerStroke(stats, numIntersections) ==
    [stats EXCEPT !.successfulIntersections = @ + 1]

\* GameState.handleIntersection after Board.checkIntersection returned
\* numIntersections: recordSuccessfulIntersection once for each of them.
handleIntersection(stats, numIntersections) ==
    [stats EXCEPT !.successfulIntersections = @ + numIntersections]

\* GameState.checkVictory as p.draw calls it: every frame, whatever
\* handleCutting did before it.
checkVictoryInDraw(arcs) == BoardCheckVictory(arcs)

\* One frame of p.draw with the stroke from the previous mouse position to
\* the current one (empty when no cut is being made): handleCutting, that
\* is handleIntersection then checkLoss, while isPlaying; then checkVictory.
Draw ==
    /\ game.phase = "playing"
    /\ \E line \in Lines :
        LET idle == [kept |-> intersections, circles |-> circles, hitCount |-> 0]
            st == IF game.isPlaying
                  THEN FilterIntersections(line, intersections, 1,
                           [kept |-> <<>>, circles |-> circles, hitCount |-> 0])
                  ELSE idle
            lost == game.isPlaying /\ BoardCheckLoss(st.circles, line)
            won == checkVictoryInDraw(st.kept)
            counted == IF game.isPlaying
                       THEN handleIntersection(game.stats, st.hitCount)
                       ELSE game.stats
        IN  /\ intersections' = st.kept
            /\ circles' = st.circles
            /\ game' = [game EXCEPT
                    !.isPlaying = @ /\ ~lost /\ ~won,
                    !.stats = IF lost \/ won THEN endGame(counted) ELSE counted,
                    !.declared = @ \cup (IF lost THEN {"loss"} ELSE {})
                                   \cup (IF won THEN {"victory"} ELSE {})]
    /\ UNCHANGED <<totalCuts, lastCall, sub, join, pair, chaos, provider, lives, removal, data, collector, countdown, auth>>

\* GameState.restart: loadMap(lastBoard)
Restart ==
    /\ game.phase = "playing"
    /\ LET level == game.lastBoard
       IN  /\ circles' = [c \in 1..level.n |-> NewCircle(c)]
           /\ intersections' = calculateAllIntersections(level.n, level.geom)
           /\ totalCuts' = Len(calculateAllIntersections(level.n, level.geom))
           /\ game' = NewGame(level)
    /\ UNCHANGED <<lastCall, sub, join, pair, chaos, provider, lives, removal, data, collector, countdown, auth>>

GameNext == Draw \/ Restart

SpecGame == GameInit /\ [][GameNext]_vars

\* ------------------------------------- intersectTwoCircles called directly
PairInit ==
    /\ \E d \in 0..MaxDist : \E r1 \in 1..MaxRadius : \E r2 \in 1..MaxRadius :
       \E theta \in Directions : \E g \in PlacePair(d, r1, r2, theta) :
            pair = [phase |-> "args", d |-> d, r1 |-> r1, r2 |-> r2, g |-> g,
                    points |-> <<>>, arcs |-> <<>>, live |-> <<>>]
    /\ circles = <<>>
    /\ intersections = <<>>
    /\ totalCuts = 0
    /\ lastCall = NoCall
    /\ sub = IdleSub
    /\ join = IdleJoin
    /\ game = IdleGame
    /\ chaos = IdleChaos
    /\ provider = IdleProvider
    /\ lives = IdleLives
    /\ removal = IdleRemoval
    /\ data = IdleData
    /\ collector = IdleCollector
    /\ countdown = IdleCountdown
    /\ auth = IdleAuth

\* getCircleIntersections and intersectTwoCircles of the two circles, and
\* the live set of the board made of them.
IntersectCall ==
    /\ pair.phase = "args"
    /\ pair' = [pair EXCEPT
            !.phase = "done",
            !.points = getCircleIntersections(pair.g),
            !.arcs = intersectTwoCircles(1, 2, pair.g),
            !.live = calculateAllIntersections(2, (<<1, 2>> :> pair.g))]
    /\ UNCHANGED <<circles, intersections, totalCuts, lastCall, sub, join,
                   game, chaos, provider, lives, removal, data, collector, countdown, auth>>

PairNext == IntersectCall

SpecPair == PairInit /\ [][PairNext]_vars

\* ---------------------------------------------------- generateChaoticBoard
\* Lengths are whole numbers, minRadius is 1 and the usable canvas starts
\* at the origin.  minRadius + Math.random() * (maxRadius - minRadius),
\* Math.random() being in [0, 1).
ChaosRadii == 1..(ChaosMaxRadius - 1)

\* r + Math.random() * (usable - 2 * r)
ChaosCoords(r) == {r} \cup r..(ChaosSize - r - 1)

\* The check of one candidate against the circles accepted so far:
\* Math.hypot(dx, dy) + r <= c.radius, both sides being >= 0, compared by
\* squares.
ChaosContained(accepted, x, y, r) ==
    \E k \in 1..Len(accepted) :
        LET c == accepted[k]
        IN  /\ r < c.radius
            /\ (x - c.x) * (x - c.x) + (y - c.y) * (y - c.y)
                    <= (c.radius - r) * (c.radius - r)

ChaosInit ==
    /\ \E n \in 0..ChaosCircles :
        chaos = [phase |-> IF n <= 0 THEN "returned" ELSE "loop", n |-> n,
                 circles |-> <<>>, attempts |-> 0]
    /\ circles = <<>>
    /\ intersections = <<>>
    /\ totalCuts = 0
    /\ lastCall = NoCall
    /\ sub = IdleSub
    /\ join = IdleJoin
    /\ game = IdleGame
    /\ pair = IdlePair
    /\ provider = IdleProvider
    /\ lives = IdleLives
    /\ removal = IdleRemoval
    /\ data = IdleData
    /\ collector = IdleCollector
    /\ countdown = IdleCountdown
    /\ auth = IdleAuth

\* One turn of the while loop.
ChaosAttempt ==
    /\ chaos.phase = "loop"
    /\ Len(chaos.circles) < chaos.n
    /\ chaos.attempts < chaos.n * AttemptsPerCircle
    /\ \E r \in ChaosRadii : \E x \in ChaosCoords(r) : \E y \in ChaosCoords(r) :
        chaos' = [chaos EXCEPT
            !.attempts = @ + 1,
            !.circles = IF ChaosContained(chaos.circles, x, y, r) THEN @
                        ELSE Append(@, [x |-> x, y |-> y, radius |-> r])]
    /\ UNCHANGED <<circles, intersections, totalCuts, lastCall, sub, join,
                   game, pair, provider, lives, removal, data, collector, countdown, auth>>

\* The loop ends and the circles are returned.
ChaosReturn ==
    /\ chaos.phase = "loop"
    /\ ~(Len(chaos.circles) < chaos.n
          /\ chaos.attempts < chaos.n * AttemptsPerCircle)
    /\ chaos' = [chaos EXCEPT !.phase = "returned"]
    /\ UNCHANGED <<circles, intersections, totalCuts, lastCall, sub, join,
                   game, pair, provider, lives, removal, data, collector, countdown, auth>>

ChaosNext == ChaosAttempt \/ ChaosReturn

SpecChaos == ChaosInit /\ [][ChaosNext]_vars

\* ------------------------------------------------------ SimpleAuthProvider
\* A string is the sequence of its characters.
Rep(ch, n) == [i \in 1..n |-> ch]

\* The characters the class [a-zA-Z0-9_-] of authenticate matches.
IsNameChar(ch) == ch \in {"a", "Z", "7", "_", "-"}

\* String.prototype.trim: white space off both ends
RECURSIVE trim(_)
trim(str) ==
    IF str = <<>> THEN str
    ELSE IF Head(str) = " " THEN trim(Tail(str))
    ELSE IF str[Len(str)] = " " THEN trim(SubSeq(str, 1, Len(str) - 1))
    ELSE str

\* credentials.username.trim().replace(/[^a-zA-Z0-9_-]/g, '')
sanitize(username) == SelectSeq(trim(username), IsNameChar)

\* SimpleAuthProvider.validateCredentials
validateCredentials(username) ==
    /\ username # <<>>
    /\ Len(trim(username)) >= minUsernameLength
    /\ Len(trim(username)) <= maxUsernameLength

\* SimpleAuthProvider.authenticate
authenticate(username) ==
    IF ~validateCredentials(username)
    THEN [success |-> FALSE, userId |-> <<>>, isGuest |-> FALSE]
    ELSE [success |-> TRUE, userId |-> sanitize(username), isGuest |-> FALSE]

\* authenticate is about to be called with a username typed by the player:
\* name characters, then other characters, then name characters again,
\* between white space.
ProviderInit ==
    /\ \E lead \in 0..MaxPadding : \E k1 \in 0..MaxNameChars :
       \E other \in 0..MaxSpecial : \E k2 \in 0..1 : \E trail \in 0..MaxPadding :
        provider = [phase |-> "called",
                    username |-> Rep(" ", lead) \o Rep("a", k1) \o
                                 Rep("!", other) \o Rep("_", k2) \o
                                 Rep(" ", trail),
                    result |-> [success |-> FALSE, userId |-> <<>>,
                                isGuest |-> FALSE]]
    /\ circles = <<>>
    /\ intersections = <<>>
    /\ totalCuts = 0
    /\ lastCall = NoCall
    /\ sub = IdleSub
    /\ join = IdleJoin
    /\ game = IdleGame
    /\ pair = IdlePair
    /\ chaos = IdleChaos
    /\ lives = IdleLives
    /\ removal = IdleRemoval
    /\ data = IdleData
    /\ collector = IdleCollector
    /\ countdown = IdleCountdown
    /\ auth = IdleAuth

\* await provider.authenticate({ username })
Authenticate ==
    /\ provider.phase = "called"
    /\ provider' = [provider EXCEPT !.phase = "returned",
                                    !.result = authenticate(provider.username)]
    /\ UNCHANGED <<circles, intersections, totalCuts, lastCall, sub, join,
                   game, pair, chaos, lives, removal, data, collector, countdown, auth>>

ProviderNext == Authenticate

SpecProvider == ProviderInit /\ [][ProviderNext]_vars

\* ------------------------------ Board with lives, hints and circle removal
\* The test of the filter of calculateAllIntersections on one merged arc,
\* the angles, the full turn and the allowance (0.001 rad) in one unit.
coversWholeCircle(arc, twoPi, allowance) ==
    Abs(arc.startAngle - arc.endAngle) + allowance >= twoPi

\* The filter of Board.calculateAllIntersections on the merged arcs: the
\* arcs kept and the circles left in this.circles.  0.001 rad is less than
\* a grid step, so that on the grid x + 0.001 >= 2 * PI is x >= TwoPi.
removeWholeCircles(n, joined) ==
    [joined |-> joined,
     intersections |->
        SelectSeq(joined, LAMBDA arc : ~coversWholeCircle(arc, TwoPi, 0)),
     circles |-> {c \in 1..n : \A k \in 1..Len(joined) :
                        joined[k].circle = c
                            => ~coversWholeCircle(joined[k], TwoPi, 0)}]

\* Board.calculateAllIntersections with its filter
calculateAllIntersectionsRemoving(n, geom) ==
    removeWholeCircles(n, calculateAllIntersections(n, geom))

\* Faulty variant: only the missed cuts are counted against the lives.
lossCodeMissesOnly(missedCuts, hintsUsed) ==
    IF missedCuts >= LivesBudget THEN 2 ELSE 1

\* What checkLoss returns after this.missedCuts++ on a wrong cut.
lossCode(missedCuts, hintsUsed) ==
    IF missedCuts + hintsUsed >= LivesBudget THEN 2 ELSE 1

\* Faulty variant: the hinted circles are left as they were.
keepHintedAll(hintedCircles, arcs) == hintedCircles

\* The end of checkIntersection: hintedCircles keeps the circles that
\* still have a live arc.
keepHinted(hintedCircles, arcs) ==
    IF Len(hintedCircles) > 0
    THEN SelectSeq(hintedCircles,
                   LAMBDA circle : \E k \in 1..Len(arcs) : arcs[k].circle = circle)
    ELSE hintedCircles

\* The strokes given to this board: at most LivesLinePoints points, each
\* on a circle at a multiple of DirectionStep.
LivesLines ==
    {line \in SetsUpTo((1..Len(circles)) \X Directions, LivesLinePoints) :
        \A c \in 1..Len(circles) : Cardinality(LinePointsOn(line, c)) <= 2}

\* The last call on the board: what it returned, how many circles the
\* stroke met (2 for two or more), and the circles it took out of
\* hintedCircles.
NoLivesCall == [op |-> "none", result |-> 0, threw |-> FALSE,
                hits |-> 0, unhinted |-> {}]

\* The ways two circles of such a board cross: the second centre lies
\* along a multiple of LivesDirectionStep from the first, and the lens
\* takes more of the first circle than of the second.
LivesGeoms ==
    {g \in PairGeoms \cap CrossGeoms :
        g.theta % LivesDirectionStep = 0 /\ g.w1 > g.w2}

\* new Board(p, circlesData, soundManager) of the variant
LivesInit ==
    /\ \E n \in 0..NumCircles :
       \E crossing \in SUBSET Pairs(n) :
        /\ Cardinality(crossing) <= MaxCrossings
        /\ \E placed \in [crossing -> LivesGeoms] :
            \E level \in {Level(n, placed)} :
            \E built \in {calculateAllIntersectionsRemoving(level.n,
                                                             level.geom)} :
                /\ circles = [c \in 1..level.n |-> NewCircle(c)]
                /\ intersections = built.intersections
                /\ totalCuts = Len(built.intersections)
                /\ lives = [phase |-> "board", joined |-> built.joined,
                            present |-> built.circles,
                            missedCuts |-> 0, hintsUsed |-> 0,
                            hintedCircles |-> <<>>, last |-> NoLivesCall]
    /\ lastCall = NoCall
    /\ sub = IdleSub
    /\ join = IdleJoin
    /\ game = IdleGame
    /\ pair = IdlePair
    /\ chaos = IdleChaos
    /\ provider = IdleProvider
    /\ removal = IdleRemoval
    /\ data = IdleData
    /\ collector = IdleCollector
    /\ countdown = IdleCountdown
    /\ auth = IdleAuth

\* Board.checkLoss(line) of the variant: the first circle of this.circles
\* the stroke meets costs a life.
LivesCheckLoss ==
    /\ lives.phase = "board"
    /\ lives.missedCuts < MaxMissedCuts
    /\ \E line \in LivesLines :
        LET hitCircles == {c \in lives.present : intersect(circles[c], line)}
            missed == IF hitCircles # {} THEN lives.missedCuts + 1
                      ELSE lives.missedCuts
        IN  lives' = [lives EXCEPT
                !.missedCuts = missed,
                !.last = [NoLivesCall EXCEPT
                    !.op = "checkLoss",
                    !.result = IF hitCircles # {}
                               THEN lossCode(missed, lives.hintsUsed) ELSE 0,
                    !.hits = IF Cardinality(hitCircles) > 1 THEN 2
                             ELSE Cardinality(hitCircles)]]
    /\ UNCHANGED <<circles, intersections, totalCuts, lastCall, sub, join,
                   game, pair, chaos, provider, removal, data, collector, countdown, auth>>

\* Board.recordHintUsed(): with no live arc left, intersection is undefined
\* and reading intersection.circle throws, after hintsUsed++.
RecordHintUsed ==
    /\ lives.phase = "board"
    /\ lives.hintsUsed < MaxHints
    /\ IF Len(intersections) = 0
       THEN lives' = [lives EXCEPT
                !.hintsUsed = @ + 1,
                !.last = [NoLivesCall EXCEPT !.op = "recordHintUsed",
                                             !.threw = TRUE]]
       ELSE \E k \in 1..Len(intersections) :
            lives' = [lives EXCEPT
                !.hintsUsed = @ + 1,
                !.hintedCircles = Append(@, intersections[k].circle),
                !.last = [NoLivesCall EXCEPT
                    !.op = "recordHintUsed",
                    !.result = IF lives.missedCuts + lives.hintsUsed + 1
                                    >= LivesBudget THEN 1 ELSE 0]]
    /\ UNCHANGED <<circles, intersections, totalCuts, lastCall, sub, join,
                   game, pair, chaos, provider, removal, data, collector, countdown, auth>>

\* Board.checkIntersection(line) of the variant
LivesCheckIntersection ==
    /\ lives.phase = "board"
    /\ \E line \in {l \in LivesLines : Cardinality(l) <= MaxLinePoints} :
        LET st == FilterIntersections(line, intersections, 1,
                      [kept |-> <<>>, circles |-> circles, hitCount |-> 0])
        IN  /\ intersections' = st.kept
            /\ circles' = st.circles
            /\ lives' = [lives EXCEPT
                    !.hintedCircles = keepHinted(@, st.kept),
                    !.last = [NoLivesCall EXCEPT
                        !.op = "checkIntersection",
                        !.result = st.hitCount,
                        !.unhinted =
                            {lives.hintedCircles[i] :
                                i \in 1..Len(lives.hintedCircles)} \
                            {c \in 1..Len(circles) :
                                \E k \in 1..Len(st.kept) :
                                    st.kept[k].circle = c}]]
    /\ UNCHANGED <<totalCuts, lastCall, sub, join, game, pair, chaos, provider, removal, data, collector, countdown, auth>>

LivesNext == LivesCheckLoss \/ RecordHintUsed \/ LivesCheckIntersection

SpecLives == LivesInit /\ [][LivesNext]_vars

\* ----------------- calculateAllIntersections at the scale of its allowance
\* Here an angle is a whole number of units of 0.0005 rad, so that the
\* allowance of the filter, 0.001 rad, is RemovalAllowance units, and PI is
\* FinePi units.
FineTwoPi == 2 * FinePi

\* Math.atan2 of a point in the direction angle: in (-PI, PI]
atan2Fine(angle) ==
    LET n == angle % FineTwoPi IN IF n > FinePi THEN n - FineTwoPi ELSE n

\* intersectTwoCircles on two circles that cross, the second centre in the
\* direction theta from the first, the lens taking the half-angles w1 and
\* w2 of the two circles: of the four arcs made by makeArc, the two whose
\* midpoint lies inside the other circle.
intersectTwoCirclesFine(theta, w1, w2) ==
    << Arc(1, atan2Fine(theta - w1), atan2Fine(theta + w1)),
       Arc(2, atan2Fine(theta + FinePi - w2), atan2Fine(theta + FinePi + w2)) >>

\* Directions of the second centre: around 0, around PI, and a quarter turn.
FineDirections ==
    {-1, 0, 1, FinePi - 1, FinePi, 1 - FinePi, FinePi \div 2}

\* Half-angles of a lens: a sliver, or all but a sliver of the circle.
FineWidths == (1..MaxFineWidth) \cup ((FinePi - MaxFineWidth)..(FinePi - 1))

\* new Board(p, [c1, c2]) of the variant is about to be built.
RemovalInit ==
    /\ \E theta \in FineDirections : \E w1 \in FineWidths : \E w2 \in FineWidths :
        /\ w1 + w2 < FinePi
        /\ removal = [phase |-> "args", theta |-> theta, w1 |-> w1, w2 |-> w2,
                      joined |-> <<>>, intersections |-> <<>>, circles |-> {}]
    /\ circles = <<>>
    /\ intersections = <<>>
    /\ totalCuts = 0
    /\ lastCall = NoCall
    /\ sub = IdleSub
    /\ join = IdleJoin
    /\ game = IdleGame
    /\ pair = IdlePair
    /\ chaos = IdleChaos
    /\ provider = IdleProvider
    /\ lives = IdleLives
    /\ data = IdleData
    /\ collector = IdleCollector
    /\ countdown = IdleCountdown
    /\ auth = IdleAuth

\* Board.calculateAllIntersections of the variant: each circle has one
\* arc, which joinOverlappingArcs returns as it is (arcs.length <= 1);
\* then the filter.
RemovalBuild ==
    /\ removal.phase = "args"
    /\ LET joined == intersectTwoCirclesFine(removal.theta, removal.w1,
                                             removal.w2)
           full(arc) == coversWholeCircle(arc, FineTwoPi, RemovalAllowance)
       IN  removal' = [removal EXCEPT
                !.phase = "built",
                !.joined = joined,
                !.intersections = SelectSeq(joined, LAMBDA arc : ~full(arc)),
                !.circles = {c \in 1..2 : \A k \in 1..Len(joined) :
                                joined[k].circle = c => ~full(joined[k])}]
    /\ UNCHANGED <<circles, intersections, totalCuts, lastCall, sub, join,
                   game, pair, chaos, provider, lives, data, collector, countdown, auth>>

RemovalNext == RemovalBuild

SpecRemoval == RemovalInit /\ [][RemovalNext]_vars

\* --------------------------------------------------------- GameDataManager
\* Promises are numbered: 0 is the Promise.resolve() dataLock starts with,
\* i is the promise then() returned for the i-th operation submitted.
\* Faulty variant: the promise returned by then() is not stored.
nextLockUnassigned(dataLock, id) == dataLock

\* this.dataLock = this.dataLock.then(...): the new value of dataLock
nextLock(dataLock, id) == id

\* A promise is fulfilled: promise 0 from the start, promise i when the
\* async callback of operation i has returned.
Fulfilled(ops, i) == IF i = 0 THEN TRUE ELSE ops[i].status = "done"

\* loadData() or addGameData(): the operation is chained to dataLock.
Submitted(kind) ==
    [data EXCEPT
        !.ops = Append(@, [kind |-> kind, after |-> data.dataLock,
                           status |-> "queued", outcome |-> "none"]),
        !.dataLock = nextLock(data.dataLock, Len(data.ops) + 1)]

\* new GameDataManager(playerName, firestoreService)
DataInit ==
    /\ data = [phase |-> "manager", ops |-> <<>>, dataLock |-> 0, stored |-> 0]
    /\ circles = <<>>
    /\ intersections = <<>>
    /\ totalCuts = 0
    /\ lastCall = NoCall
    /\ sub = IdleSub
    /\ join = IdleJoin
    /\ game = IdleGame
    /\ pair = IdlePair
    /\ chaos = IdleChaos
    /\ provider = IdleProvider
    /\ lives = IdleLives
    /\ removal = IdleRemoval
    /\ collector = IdleCollector
    /\ countdown = IdleCountdown
    /\ auth = IdleAuth

\* GameDataManager.loadData() is called.
LoadData ==
    /\ data.phase = "manager"
    /\ Len(data.ops) < MaxOps
    /\ data' = Submitted("loadData")
    /\ UNCHANGED <<circles, intersections, totalCuts, lastCall, sub, join,
                   game, pair, chaos, provider, lives, removal, collector, countdown, auth>>

\* GameDataManager.addGameData(data, board) is called.
AddGameData ==
    /\ data.phase = "manager"
    /\ Len(data.ops) < MaxOps
    /\ data' = Submitted("addGameData")
    /\ UNCHANGED <<circles, intersections, totalCuts, lastCall, sub, join,
                   game, pair, chaos, provider, lives, removal, collector, countdown, auth>>

\* The callback given to then() starts, the promise it was chained to
\* being fulfilled.  loadData awaits loadPlayerGameData; addGameData pushes
\* its entry and awaits saveData, which returns at once when offline and
\* awaits saveGameData otherwise.
StartBody ==
    /\ data.phase = "manager"
    /\ \E i \in 1..Len(data.ops) :
        /\ data.ops[i].status = "queued"
        /\ Fulfilled(data.ops, data.ops[i].after)
        /\ IF data.ops[i].kind = "loadData"
           THEN data' = [data EXCEPT !.ops[i].status = "loading"]
           ELSE \E isOnline \in BOOLEAN :
                data' = [data EXCEPT
                    !.stored = @ + 1,
                    !.ops[i].status = IF isOnline THEN "saving" ELSE "skipped"]
    /\ UNCHANGED <<circles, intersections, totalCuts, lastCall, sub, join,
                   game, pair, chaos, provider, lives, removal, collector, countdown, auth>>

\* The Firestore promise an operation awaits settles, and the callback
\* runs to its end: a load that succeeded stores the games it got, a load
\* or a save that failed is caught and reported.
FirestoreSettles ==
    /\ data.phase = "manager"
    /\ \E i \in 1..Len(data.ops) : \E ok \in BOOLEAN :
        /\ data.ops[i].status \in {"loading", "saving"}
        /\ \E loaded \in 0..MaxLoaded :
            data' = [data EXCEPT
                !.stored = IF data.ops[i].status = "loading" /\ ok
                           THEN @ + loaded ELSE @,
                !.ops[i].status = "done",
                !.ops[i].outcome = IF ok THEN "succeeded" ELSE "failed"]
    /\ UNCHANGED <<circles, intersections, totalCuts, lastCall, sub, join,
                   game, pair, chaos, provider, lives, removal, collector, countdown, auth>>

\* await this.saveData(entry) resumes after saveData returned offline.
SkippedReturns ==
    /\ data.phase = "manager"
    /\ \E i \in 1..Len(data.ops) :
        /\ data.ops[i].status = "skipped"
        /\ data' = [data EXCEPT !.ops[i].status = "done",
                                !.ops[i].outcome = "skipped"]
    /\ UNCHANGED <<circles, intersections, totalCuts, lastCall, sub, join,
                   game, pair, chaos, provider, lives, removal, collector, countdown, auth>>

DataNext == LoadData \/ AddGameData \/ StartBody \/ FirestoreSettles
            \/ SkippedReturns

SpecData == DataInit /\ [][DataNext]_vars

\* ---------------------------------------------------------- StatsCollector
\* Times are whole ticks of Date.now(), which is positive; Undefined stands
\* for the value undefined of endTime and duration.
Undefined == -1

\* The stats record startGame, reset and the constructor build.
FreshStats(now) ==
    [startTime |-> now, endTime |-> Undefined, duration |-> Undefined,
     hintsUsed |-> 0, successfulIntersections |-> 0]

\* Faulty variant: the game is ended again whatever endTime holds.
endGameAtUnguarded(stats, now) ==
    [stats EXCEPT !.endTime = now, !.duration = now - stats.startTime]

\* StatsCollector.endGame on the stats record, Date.now() being now:
\* if (this.stats.endTime) return.
endGameAt(stats, now) ==
    IF stats.endTime # Undefined /\ stats.endTime # 0 THEN stats
    ELSE [stats EXCEPT !.endTime = now, !.duration = now - stats.startTime]

\* new StatsCollector(boardName, firestoreService), with or without a
\* GameDataManager to submit to.  sinceStart counts the endGame calls since
\* the constructor or the last startGame, sinceFresh those since the stats
\* record was last built.
CollectorInit ==
    /\ \E persisting \in BOOLEAN : \E now \in 1..MaxClock :
        collector = [phase |-> "collecting", persisting |-> persisting,
                     now |-> now, stats |-> FreshStats(now), submitted |-> 0,
                     sinceStart |-> 0, sinceFresh |-> 0]
    /\ circles = <<>>
    /\ intersections = <<>>
    /\ totalCuts = 0
    /\ lastCall = NoCall
    /\ sub = IdleSub
    /\ join = IdleJoin
    /\ game = IdleGame
    /\ pair = IdlePair
    /\ chaos = IdleChaos
    /\ provider = IdleProvider
    /\ lives = IdleLives
    /\ removal = IdleRemoval
    /\ data = IdleData
    /\ countdown = IdleCountdown
    /\ auth = IdleAuth

\* Time passes.
ClockTick ==
    /\ collector.phase = "collecting"
    /\ collector.now < MaxClock
    /\ collector' = [collector EXCEPT !.now = @ + 1]
    /\ UNCHANGED <<circles, intersections, totalCuts, lastCall, sub, join,
                   game, pair, chaos, provider, lives, removal, data, countdown, auth>>

\* StatsCollector.startGame(boardName)
StartGame ==
    /\ collector.phase = "collecting"
    /\ collector' = [collector EXCEPT !.stats = FreshStats(collector.now),
                                      !.sinceStart = 0, !.sinceFresh = 0]
    /\ UNCHANGED <<circles, intersections, totalCuts, lastCall, sub, join,
                   game, pair, chaos, provider, lives, removal, data, countdown, auth>>

\* StatsCollector.reset()
ResetStats ==
    /\ collector.phase = "collecting"
    /\ collector' = [collector EXCEPT !.stats = FreshStats(collector.now),
                                      !.sinceFresh = 0]
    /\ UNCHANGED <<circles, intersections, totalCuts, lastCall, sub, join,
                   game, pair, chaos, provider, lives, removal, data, countdown, auth>>

\* StatsCollector.endGame(board): the variant with a GameDataManager calls
\* addGameData(this.stats, board) when it did not return early.
EndGame ==
    /\ collector.phase = "collecting"
    /\ collector.sinceStart < MaxEndCalls
    /\ collector.submitted < MaxSubmitted
    /\ LET ended == endGameAt(collector.stats, collector.now)
       IN  collector' = [collector EXCEPT
                !.stats = ended,
                !.submitted = IF collector.persisting /\ ended # collector.stats
                              THEN @ + 1 ELSE @,
                !.sinceStart = @ + 1,
                !.sinceFresh = @ + 1]
    /\ UNCHANGED <<circles, intersections, totalCuts, lastCall, sub, join,
                   game, pair, chaos, provider, lives, removal, data, countdown, auth>>

\* StatsCollector.recordHintUsed()
CollectorHint ==
    /\ collector.phase = "collecting"
    /\ collector.stats.hintsUsed < MaxRecorded
    /\ collector' = [collector EXCEPT !.stats.hintsUsed = @ + 1]
    /\ UNCHANGED <<circles, intersections, totalCuts, lastCall, sub, join,
                   game, pair, chaos, provider, lives, removal, data, countdown, auth>>

\* StatsCollector.recordSuccessfulIntersection()
CollectorSuccess ==
    /\ collector.phase = "collecting"
    /\ collector.stats.successfulIntersections < MaxRecorded
    /\ collector' = [collector EXCEPT !.stats.successfulIntersections = @ + 1]
    /\ UNCHANGED <<circles, intersections, totalCuts, lastCall, sub, join,
                   game, pair, chaos, provider, lives, removal, data, countdown, auth>>

CollectorNext == ClockTick \/ StartGame \/ ResetStats \/ EndGame
                 \/ CollectorHint \/ CollectorSuccess

SpecCollector == CollectorInit /\ [][CollectorNext]_vars

\* --------------------------------------------------------------- Countdown
\* The start calls are numbered 1, 2, ...; call k passes the callback k and
\* gets the interval handle k from setInterval.  0 stands for null and
\* undefined.  A timer is [handle, count]: count is the variable of the
\* closure its callback decrements.
\* Faulty variant: the existing interval is left running.
clearExistingNot(timers, handle) == timers

\* clearInterval(handle): if (this.countdownInterval !== null) guards it.
clearExisting(timers, handle) ==
    IF handle # 0 THEN {t \in timers : t.handle # handle} ELSE timers

\* new Countdown()
CountdownInit ==
    /\ countdown = [phase |-> "built", calls |-> 0, onComplete |-> 0,
                    countdownInterval |-> 0, timers |-> {}, shown |-> FALSE,
                    invoked |-> [k \in 1..MaxStarts |-> 0],
                    elapsed |-> [k \in 1..MaxStarts |-> 0],
                    cancelled |-> [k \in 1..MaxStarts |-> FALSE]]
    /\ circles = <<>>
    /\ intersections = <<>>
    /\ totalCuts = 0
    /\ lastCall = NoCall
    /\ sub = IdleSub
    /\ join = IdleJoin
    /\ game = IdleGame
    /\ pair = IdlePair
    /\ chaos = IdleChaos
    /\ provider = IdleProvider
    /\ lives = IdleLives
    /\ removal = IdleRemoval
    /\ data = IdleData
    /\ collector = IdleCollector
    /\ auth = IdleAuth

\* The calls whose callback has not run: a stop or a new start cuts them
\* short.
Pending(cd) == {k \in 1..cd.calls : cd.invoked[k] = 0}

\* Countdown.start(onComplete)
CountdownStart ==
    /\ countdown.phase = "built"
    /\ countdown.calls < MaxStarts
    /\ LET k == countdown.calls + 1
       IN  countdown' = [countdown EXCEPT
                !.calls = k,
                !.onComplete = k,
                !.shown = TRUE,
                !.timers = clearExisting(@, countdown.countdownInterval)
                           \cup {[handle |-> k, count |-> CountdownFrom]},
                !.countdownInterval = k,
                !.cancelled = [j \in 1..MaxStarts |->
                                @[j] \/ j \in Pending(countdown)]]
    /\ UNCHANGED <<circles, intersections, totalCuts, lastCall, sub, join,
                   game, pair, chaos, provider, lives, removal, data,
                   collector, auth>>

\* Countdown.stop() called from outside
CountdownStop ==
    /\ countdown.phase = "built"
    /\ countdown' = [countdown EXCEPT
            !.timers = clearExisting(@, countdown.countdownInterval),
            !.countdownInterval = 0,
            !.shown = FALSE,
            !.cancelled = [j \in 1..MaxStarts |->
                            @[j] \/ j \in Pending(countdown)]]
    /\ UNCHANGED <<circles, intersections, totalCuts, lastCall, sub, join,
                   game, pair, chaos, provider, lives, removal, data,
                   collector, auth>>

\* A second has passed for an interval that is still set: its callback
\* runs.  count--; above 0 the display is updated, else this.stop() and
\* this.onComplete().
IntervalFires ==
    /\ countdown.phase = "built"
    /\ \E t \in countdown.timers :
        /\ t.count > -MaxStarts
        /\ LET count == t.count - 1
               ticked == (countdown.timers \ {t})
                            \cup {[handle |-> t.handle, count |-> count]}
               seen == [countdown.elapsed EXCEPT ![t.handle] = @ + 1]
           IN  IF count > 0
               THEN countdown' = [countdown EXCEPT !.timers = ticked,
                                                   !.elapsed = seen]
               ELSE countdown' = [countdown EXCEPT
                        !.timers = clearExisting(ticked,
                                        countdown.countdownInterval),
                        !.countdownInterval = 0,
                        !.shown = FALSE,
                        !.elapsed = seen,
                        !.invoked = IF countdown.onComplete # 0
                                    THEN [@ EXCEPT ![countdown.onComplete] = @ + 1]
                                    ELSE @]
    /\ UNCHANGED <<circles, intersections, totalCuts, lastCall, sub, join,
                   game, pair, chaos, provider, lives, removal, data,
                   collector, auth>>

CountdownNext == CountdownStart \/ CountdownStop \/ IntervalFires

SpecCountdown == CountdownInit /\ [][CountdownNext]_vars

\* ------------------------------------------------------------- AuthManager
\* null, for currentUser, authToken and PlayerIdentity.userId
Null == "null"

\* The user ids and the tokens a provider may return.
UserIds == {"ann", "bob"}
AuthTokens == {"", "token"}

\* The results of authenticate and authenticateAsGuest: success with a
\* user id and maybe a token, or failure with the empty user id.
AuthResults ==
    {[success |-> TRUE, userId |-> u, isGuest |-> g, authToken |-> t] :
        u \in UserIds, g \in BOOLEAN, t \in AuthTokens}
    \cup {[success |-> FALSE, userId |-> "", isGuest |-> FALSE,
           authToken |-> ""]}

\* The fields of a new AuthManager, PlayerIdentity.userId being unset.
SignedOut ==
    [isAuthenticated |-> FALSE, currentUser |-> Null, isGuest |-> FALSE,
     authToken |-> Null, playerId |-> Null]

\* Faulty variant: the result is stored without looking at success.
afterResultUnchecked(fields, kind, result) ==
    [isAuthenticated |-> TRUE,
     currentUser |-> result.userId,
     isGuest |-> IF kind = "continueAsGuest" THEN TRUE ELSE result.isGuest,
     authToken |-> IF result.authToken # "" THEN result.authToken ELSE Null,
     playerId |-> result.userId]

\* login and continueAsGuest after their await: if (result.success) {...}
afterResult(fields, kind, result) ==
    IF result.success
    THEN [isAuthenticated |-> TRUE,
          currentUser |-> result.userId,
          isGuest |-> IF kind = "continueAsGuest" THEN TRUE ELSE result.isGuest,
          authToken |-> IF result.authToken # "" THEN result.authToken ELSE Null,
          playerId |-> result.userId]
    ELSE fields

NoAttempt == [kind |-> "none", success |-> FALSE, before |-> SignedOut]

\* new AuthManager(authProvider)
AuthInit ==
    /\ auth = [phase |-> "manager", fields |-> SignedOut, calls |-> 0,
               pending |-> {}, last |-> NoAttempt]
    /\ circles = <<>>
    /\ intersections = <<>>
    /\ totalCuts = 0
    /\ lastCall = NoCall
    /\ sub = IdleSub
    /\ join = IdleJoin
    /\ game = IdleGame
    /\ pair = IdlePair
    /\ chaos = IdleChaos
    /\ provider = IdleProvider
    /\ lives = IdleLives
    /\ removal = IdleRemoval
    /\ data = IdleData
    /\ collector = IdleCollector
    /\ countdown = IdleCountdown

\* login, continueAsGuest or logout is called and awaits its provider.
AuthCall ==
    /\ auth.phase = "manager"
    /\ auth.calls < MaxAttempts
    /\ \E kind \in {"login", "continueAsGuest", "logout"} :
        auth' = [auth EXCEPT
            !.calls = @ + 1,
            !.pending = @ \cup {[id |-> auth.calls + 1, kind |-> kind]}]
    /\ UNCHANGED <<circles, intersections, totalCuts, lastCall, sub, join,
                   game, pair, chaos, provider, lives, removal, data,
                   collector, countdown>>

\* The provider's promise of a login or guest attempt is fulfilled, and
\* the attempt goes on after its await.
AttemptResumes ==
    /\ auth.phase = "manager"
    /\ \E a \in auth.pending : \E result \in AuthResults :
        /\ a.kind \in {"login", "continueAsGuest"}
        /\ auth' = [auth EXCEPT
            !.pending = @ \ {a},
            !.fields = afterResult(@, a.kind, result),
            !.last = [kind |-> a.kind, success |-> result.success,
                      before |-> auth.fields]]
    /\ UNCHANGED <<circles, intersections, totalCuts, lastCall, sub, join,
                   game, pair, chaos, provider, lives, removal, data,
                   collector, countdown>>

\* authProvider.logout() is done, and logout clears the fields and
\* PlayerIdentity.
LogoutResumes ==
    /\ auth.phase = "manager"
    /\ \E a \in auth.pending :
        /\ a.kind = "logout"
        /\ auth' = [auth EXCEPT
            !.pending = @ \ {a},
            !.fields = SignedOut,
            !.last = [kind |-> "logout", success |-> TRUE,
                      before |-> auth.fields]]
    /\ UNCHANGED <<circles, intersections, totalCuts, lastCall, sub, join,
                   game, pair, chaos, provider, lives, removal, data,
                   collector, countdown>>

AuthNext == AuthCall \/ AttemptResumes \/ LogoutResumes

SpecAuth == AuthInit /\ [][AuthNext]_vars

\* ------------------------------------------------- what an arc list covers
\* The angular length of an arc, counter-clockwise from start to end.
ArcSpan(arc) ==
    IF arc.endAngle - arc.startAngle >= TwoPi THEN TwoPi
    ELSE normalize(arc.endAngle - arc.startAngle)

\* The grid steps an arc covers; step k runs from angle k to angle k + 1.
ArcEdges(arc) == {normalize(arc.startAngle + k) : k \in 0..(ArcSpan(arc) - 1)}

\* The grid angles an arc covers, its two ends included.
ArcPoints(arc) == {normalize(arc.startAngle + k) : k \in 0..ArcSpan(arc)}

EdgesOf(arcList) == UNION {ArcEdges(arcList[k]) : k \in 1..Len(arcList)}

RECURSIVE SumSpans(_)
SumSpans(arcList) ==
    IF arcList = <<>> THEN 0
    ELSE ArcSpan(Head(arcList)) + SumSpans(Tail(arcList))

ArcsOn(arcList, c) == SelectSeq(arcList, LAMBDA arc : arc.circle = c)

\* No two arcs of the list that lie on one circle overlap or touch.
Separated(arcList) ==
    \A i \in 1..Len(arcList) : \A j \in 1..Len(arcList) :
        (i # j /\ arcList[i].circle = arcList[j].circle)
            => ArcPoints(arcList[i]) \cap ArcPoints(arcList[j]) = {}


\* ------------------------------------------------------------------ claims

\* C1: after construction, and after any calls of checkIntersection, no
\* two live intersection arcs of one circle overlap or touch, the seam at
\* 0 / 2*Pi included.
C1_LiveArcsSeparated == Separated(intersections)

\* Two arcs of one circle are live, one of them re-anchored across the
\* seam by the merger, and a stroke has just cut another arc.
C1_Witness ==
    /\ lastCall.op = "checkIntersection"
    /\ lastCall.result > 0
    /\ \E i \in 1..Len(intersections) : \E j \in 1..Len(intersections) :
        /\ i # j
        /\ intersections[i].circle = intersections[j].circle
        /\ intersections[i].startAngle > intersections[i].endAngle

\* C2 as stated: checkLoss(segment) answers the same just before and just
\* after checkIntersection(segment).
C2_LossSameAroundCut ==
    lastCall.op = "checkIntersection" => lastCall.lossBefore = lastCall.lossAfter

\* C2 amended: checkLoss(segment) answers the same before and after
\* checkIntersection(segment) when that call hits no arc; when it hits an
\* arc, checkLoss(segment) is true before the call, which then subtracts
\* the arc from its circle's boundary, and may be false after it.
C2_LossOnlyClearedByCut ==
    lastCall.op = "checkIntersection" =>
        /\ lastCall.result = 0 => lastCall.lossAfter = lastCall.lossBefore
        /\ lastCall.result > 0 => lastCall.lossBefore

\* A stroke that hit an arc and crossed the boundary only there.
C2_Witness ==
    /\ lastCall.op = "checkIntersection"
    /\ lastCall.result > 0
    /\ lastCall.lossBefore
    /\ ~lastCall.lossAfter

\* The live arcs at the positions outside hit, in order.
Unhit(arcs, hit) ==
    LET F[i \in 0..Len(arcs)] ==
            IF i = 0 THEN <<>>
            ELSE IF i \in hit THEN F[i - 1] ELSE Append(F[i - 1], arcs[i])
    IN  F[Len(arcs)]

\* C3: checkIntersection returns the number of live arcs the stroke meets,
\* removes exactly those from the live set and leaves the others as they
\* were, and each removed arc's span is gone from its circle's boundary.
C3_CutRemovesExactlyHits ==
    [][lastCall'.op = "checkIntersection" =>
        /\ lastCall'.result = Cardinality(lastCall'.hits)
        /\ intersections' = Unhit(intersections, lastCall'.hits)
        /\ \A c \in 1..Len(circles) :
            EdgesOf(circles'[c]) =
                EdgesOf(circles[c]) \ UNION {ArcEdges(intersections[i]) :
                    i \in {h \in lastCall'.hits : intersections[h].circle = c}}
      ]_vars

\* C4: no call adds an arc to the live set or changes totalCuts, and the
\* progress reported never goes down.
C4_ProgressMonotone ==
    [][/\ Len(intersections') <= Len(intersections)
       /\ \A i \in 1..Len(intersections') :
            \E j \in 1..Len(intersections) : intersections[j] = intersections'[i]
       /\ totalCuts' = totalCuts
       /\ IF totalCuts = 0 THEN getProgress' = getProgress
                           ELSE getProgress' >= getProgress
      ]_vars

\* getProgress has reported a board that is partly cut.
C4_Witness ==
    /\ lastCall.op = "getProgress"
    /\ totalCuts > 0
    /\ lastCall.result > 0
    /\ Len(intersections) > 0

\* C5: every arc of every circle's boundary list has
\* 0 <= startAngle < endAngle <= 2*Pi, and no two arcs of one list overlap.
C5_BoundaryWellFormed ==
    \A c \in 1..Len(circles) :
        /\ \A k \in 1..Len(circles[c]) :
            /\ 0 <= circles[c][k].startAngle
            /\ circles[c][k].startAngle < circles[c][k].endAngle
            /\ circles[c][k].endAngle <= TwoPi
        /\ \A k \in 1..Len(circles[c]) : \A l \in 1..Len(circles[c]) :
            k # l => \/ circles[c][k].endAngle <= circles[c][l].startAngle
                     \/ circles[c][l].endAngle <= circles[c][k].startAngle

\* A boundary in three pieces: a seam-crossing arc and another arc were
\* removed from one circle.
C5_Witness == \E c \in 1..Len(circles) : Len(circles[c]) >= 3

\* C6: no call makes a circle's boundary cover an angle it did not cover
\* before the call.
C6_BoundaryOnlyShrinks ==
    [][circles' # circles =>
        \A c \in 1..Len(circles) :
            EdgesOf(circles'[c]) \subseteq EdgesOf(circles[c])]_vars

\* Two separate pieces have been removed from one circle.
C6_Witness ==
    /\ lastCall.op = "checkIntersection"
    /\ \E c \in 1..Len(circles) :
        /\ Len(circles[c]) = 2
        /\ circles[c][1].startAngle > 0
        /\ circles[c][2].endAngle < TwoPi

\* C7: for a minuend A inside [0, 2*Pi] and any subtrahend B, the arcs of
\* subtractArc(A, B) together with the part of A under B cover exactly A,
\* cover nothing under B, and their lengths add up to that of A less the
\* part under B.
C7_SubtractionComplete ==
    (sub.phase = "done" /\ sub.a \in MinuendArcs) =>
        /\ EdgesOf(sub.out) \cup (ArcEdges(sub.a) \cap ArcEdges(sub.b))
                = ArcEdges(sub.a)
        /\ EdgesOf(sub.out) \cap ArcEdges(sub.b) = {}
        /\ SumSpans(sub.out) + Cardinality(ArcEdges(sub.a) \cap ArcEdges(sub.b))
                = ArcSpan(sub.a)

\* C8: subtractArc(A, A) is the empty list for every arc A.
C8_SelfSubtractionEmpty ==
    (sub.phase = "done" /\ sub.a = sub.b) => sub.out = <<>>

\* C9: on every circle the arcs joinIntersections returns cover exactly
\* what the given arcs cover, and no two of them overlap or touch.
C9_MergeCoversSame ==
    join.phase # "args" =>
        /\ \A c \in CirclesOf(join.arcs) \cup CirclesOf(join.out) :
            EdgesOf(ArcsOn(join.out, c)) = EdgesOf(ArcsOn(join.arcs, c))
        /\ Separated(join.out)

\* Two arcs of one circle that overlap or touch were merged into one.
C9_Witness ==
    /\ join.phase = "joined"
    /\ Len(join.arcs) = 2
    /\ Len(join.out) = 1
    /\ join.arcs[1] # join.arcs[2]

\* The arcs of a list, each as the circle and the grid steps it covers.
ArcSet(arcList) ==
    {<<arcList[k].circle, ArcEdges(arcList[k])>> : k \in 1..Len(arcList)}

\* C10: joining a joined list again gives the same arcs, and a list whose
\* arcs are already separated is returned as the same arcs.
C10_MergeIdempotent ==
    /\ join.phase = "rejoined" => ArcSet(join.again) = ArcSet(join.out)
    /\ (join.phase # "args" /\ Separated(join.arcs))
            => ArcSet(join.out) = ArcSet(join.arcs)

\* A list of two separated arcs of one circle, one across the seam, has
\* been joined twice.
C10_Witness ==
    /\ join.phase = "rejoined"
    /\ Len(join.out) = 2
    /\ join.out[1].circle = join.out[2].circle
    /\ Separated(join.arcs)
    /\ \E k \in 1..2 : join.arcs[k].startAngle > join.arcs[k].endAngle

\* An arc that does not pass the seam once its ends are normalised.
NonWrapping(arc) == normalize(arc.startAngle) < normalize(arc.endAngle)

Min(a, b) == IF a <= b THEN a ELSE b
Max(a, b) == IF a >= b THEN a ELSE b

\* C11: two arcs of one circle that overlap or touch at a shared end are
\* merged into exactly one arc covering both; when neither passes the seam
\* that arc runs from the smaller start to the larger end.
C11_OverlapMergesToOne ==
    (/\ join.phase # "args"
     /\ Len(join.arcs) = 2
     /\ join.arcs[1].circle = join.arcs[2].circle
     /\ ArcPoints(join.arcs[1]) \cap ArcPoints(join.arcs[2]) # {}) =>
        /\ Len(join.out) = 1
        /\ EdgesOf(join.out) = EdgesOf(join.arcs)
        /\ (NonWrapping(join.arcs[1]) /\ NonWrapping(join.arcs[2])) =>
            /\ join.out[1].startAngle =
                    Min(normalize(join.arcs[1].startAngle),
                        normalize(join.arcs[2].startAngle))
            /\ join.out[1].endAngle =
                    Max(normalize(join.arcs[1].endAngle),
                        normalize(join.arcs[2].endAngle))

\* Two arcs that only touch, the end event of the first tying with the
\* start event of the second in the sort, have been merged.
C11_Witness ==
    /\ join.phase = "joined"
    /\ Len(join.arcs) = 2
    /\ join.arcs[1].circle = join.arcs[2].circle
    /\ NonWrapping(join.arcs[1]) /\ NonWrapping(join.arcs[2])
    /\ normalize(join.arcs[1].endAngle) = normalize(join.arcs[2].startAngle)
    /\ Len(join.out) = 1

\* C12: between two loads of a board at most one of the two outcomes,
\* loss and victory, is declared for it.
C12_OneOutcomePerBoard ==
    game.phase = "playing" => ~({"loss", "victory"} \subseteq game.declared)

\* A level none of whose pairs of circles meet.
NoOverlapLevel(level) == \A p \in Pairs(level.n) : level.geom[p] = NoCross

\* C13: Board.checkVictory() is true exactly when the live set is empty;
\* victory is declared only then, and a board of no circles or of circles
\* that do not overlap is in the victory state from its construction on.
C13_VictoryIffNoLiveArc ==
    game.phase = "playing" =>
        /\ BoardCheckVictory(intersections) <=> (intersections = <<>>)
        /\ "victory" \in game.declared => intersections = <<>>
        /\ NoOverlapLevel(game.lastBoard) => BoardCheckVictory(intersections)

\* A board of several circles that do not overlap has been declared won,
\* no cut having been made.
C13_Witness ==
    /\ game.phase = "playing"
    /\ game.lastBoard.n >= 2
    /\ NoOverlapLevel(game.lastBoard)
    /\ game.declared = {"victory"}
    /\ game.stats.successfulIntersections = 0

\* C14: on a board whose totalCuts is 0, getProgress() reports 100.00.
C14_ZeroCutsProgressIs100 ==
    (lastCall.op = "getProgress" /\ totalCuts = 0) =>
        /\ lastCall.result # "NaN"
        /\ lastCall.result = 10000

\* C15: on a board with totalCuts = n > 0, getProgress() is
\* (1 - remaining/n) * 100 rounded to two decimals, lies in [0, 100], is
\* 0.00 before any cut, 50.00 after one cut of two, and 100.00 exactly
\* when checkVictory() is true.  Progress is counted in hundredths.
C15_ProgressIsShareCut ==
    totalCuts > 0 =>
        LET cut == totalCuts - Len(intersections)
        IN  /\ getProgress \in 0..10000
            /\ 2 * (getProgress * totalCuts - 10000 * cut) <= totalCuts
            /\ 2 * (10000 * cut - getProgress * totalCuts) <= totalCuts
            /\ cut = 0 => getProgress = 0
            /\ (totalCuts = 2 /\ cut = 1) => getProgress = 5000
            /\ (getProgress = 10000) <=> BoardCheckVictory(intersections)
            /\ lastCall.op = "getProgress" => lastCall.result = getProgress

\* getProgress has reported two arcs cut of three: 66.67.
C15_Witness ==
    /\ lastCall.op = "getProgress"
    /\ totalCuts = 3
    /\ Len(intersections) = 1
    /\ lastCall.result = 6667

\* C16: Board.checkLoss(segment) returns true exactly when the segment
\* meets an arc of some circle's boundary, and changes neither the live
\* set nor totalCuts nor any boundary.
C16_CheckLossIsPureQuery ==
    /\ [](lastCall.op = "checkLoss" => lastCall.result = (lastCall.hits # {}))
    /\ [][lastCall'.op = "checkLoss" =>
            /\ circles' = circles
            /\ intersections' = intersections
            /\ totalCuts' = totalCuts
         ]_vars

\* checkLoss has answered true for a stroke on the boundary of a circle
\* other than the first, live arcs remaining.
C16_Witness ==
    /\ lastCall.op = "checkLoss"
    /\ lastCall.result = TRUE
    /\ \E ck \in lastCall.hits : ck[1] > 1
    /\ Len(intersections) > 0

\* The containment rule of C17 on normalised angles.
OnArcRule(angle, arc) ==
    LET theta == normalize(angle)
        start == normalize(arc.startAngle)
        end == normalize(arc.endAngle)
    IN  IF start < end THEN start <= theta /\ theta <= end
                       ELSE theta >= start \/ theta <= end

\* The live arcs and the boundary arcs of the board.
BoardArcs ==
    {intersections[i] : i \in 1..Len(intersections)} \cup
    UNION {{circles[c][k] : k \in 1..Len(circles[c])} : c \in 1..Len(circles)}

\* C17: isPointOnArc accepts an angle exactly by the rule on normalised
\* angles (between start and end, or past start or before end for an arc
\* through the seam), and for every arc of the board it accepts exactly
\* the angles the arc covers, pieces ending at 2*Pi included.
C17_OnArcIffCovered ==
    /\ isPointOnArc(0, Arc(1, TwoPi - 2, 1))
    /\ ~isPointOnArc(Pi - 1, Arc(1, TwoPi - 2, 1))
    /\ \A arc \in BoardArcs : \A angle \in AtanAngles :
        /\ isPointOnArc(angle, arc) <=> OnArcRule(angle, arc)
        /\ isPointOnArc(angle, arc) <=> (normalize(angle) \in ArcPoints(arc))

\* checkLoss has found a stroke on a boundary piece that ends at 2*Pi.
C17_Witness ==
    /\ lastCall.op = "checkLoss"
    /\ \E ck \in lastCall.hits :
        /\ circles[ck[1]][ck[2]].startAngle > 0
        /\ circles[ck[1]][ck[2]].endAngle = TwoPi

\* C20: in a board returned by generateChaoticBoard no circle lies
\* completely inside a bigger circle: for every two of its circles, the
\* distance of the centres plus the smaller radius exceeds the larger.
C20_NoCircleInsideBigger ==
    chaos.phase = "returned" =>
        \A i \in 1..Len(chaos.circles) : \A j \in 1..Len(chaos.circles) :
            LET small == chaos.circles[i]
                big == chaos.circles[j]
            IN  small.radius < big.radius =>
                    (small.x - big.x) * (small.x - big.x)
                        + (small.y - big.y) * (small.y - big.y)
                    > (big.radius - small.radius) * (big.radius - small.radius)

\* C18: two circles too far apart (d > r1 + r2) or one strictly inside
\* the other (d < |r1 - r2|) give no points and no arcs, and the board
\* made of them has an empty live set, so totalCuts = 0.
C18_FarOrNestedGivesNothing ==
    (/\ pair.phase = "done"
     /\ \/ pair.d > pair.r1 + pair.r2
        \/ pair.d < Abs(pair.r1 - pair.r2)) =>
        /\ pair.points = <<>>
        /\ pair.arcs = <<>>
        /\ Len(pair.live) = 0

\* The intersector has been given a circle strictly inside another, the
\* centres apart.
C18_Witness ==
    /\ pair.phase = "done"
    /\ 0 < pair.d
    /\ pair.d < Abs(pair.r1 - pair.r2)
    /\ pair.arcs = <<>>

\* C19: intersectTwoCircles returns no arc or exactly two, the first on
\* circle 1 and the second on circle 2, each the candidate whose directed
\* midpoint faces the other centre inside the lens; it returns two exactly
\* for a crossing in two points, |r1 - r2| < d < r1 + r2, and none for
\* touching, concentric, nested or separate circles.
C19_TwoArcsOrNone ==
    pair.phase = "done" =>
        /\ Len(pair.arcs) \in {0, 2}
        /\ Len(pair.arcs) = 2 =>
            /\ pair.arcs[1].circle = 1
            /\ pair.arcs[2].circle = 2
            /\ getDirectedArcMidpoint(pair.arcs[1].startAngle,
                                      pair.arcs[1].endAngle) = atan2(pair.g.theta)
            /\ getDirectedArcMidpoint(pair.arcs[2].startAngle,
                                      pair.arcs[2].endAngle)
                    = atan2(pair.g.theta + Pi)
            /\ 2 * pair.g.w1 = ArcSpan(pair.arcs[1])
            /\ 2 * pair.g.w2 = ArcSpan(pair.arcs[2])
        /\ (Len(pair.arcs) = 2) <=>
                (/\ Abs(pair.r1 - pair.r2) < pair.d
                 /\ pair.d < pair.r1 + pair.r2)

\* Two arcs have been returned for a small circle whose chord with the
\* bigger one lies behind its centre: its arc is a half turn or more.
C19_Witness ==
    /\ pair.phase = "done"
    /\ Len(pair.arcs) = 2
    /\ pair.r1 < pair.r2
    /\ pair.d * pair.d + pair.r1 * pair.r1 < pair.r2 * pair.r2
    /\ ArcSpan(pair.arcs[1]) >= Pi

C21_AcceptedIdentityLength ==
    provider.phase = "returned" =>
        IF provider.result.success
        THEN /\ Len(provider.result.userId) >= minUsernameLength
             /\ Len(provider.result.userId) <= maxUsernameLength
        ELSE provider.result.userId = <<>>

\* C22: on the board with lives, wrong cuts and hints draw on one budget of
\* three lives: checkLoss(segment) returns 0 and leaves missedCuts as it
\* was when the segment meets no circle boundary; otherwise it adds exactly
\* 1 to missedCuts, however many circles are met, and returns 2 exactly
\* when missedCuts + hintsUsed >= 3 after that, else 1.
C22_OneBudgetOfLives ==
    /\ [](lives.phase = "board" /\ lives.last.op = "checkLoss" =>
            lives.last.result =
                IF lives.last.hits = 0 THEN 0
                ELSE IF lives.missedCuts + lives.hintsUsed >= 3 THEN 2
                ELSE 1)
    /\ [][lives.phase = "board" /\ lives'.last.op = "checkLoss" =>
            lives'.missedCuts =
                lives.missedCuts + (IF lives'.last.hits = 0 THEN 0 ELSE 1)]_vars

\* A stroke through two circles after one wrong cut and one hint: the game
\* is over, and one life was taken.
C22_Witness ==
    /\ lives.phase = "board"
    /\ lives.last.op = "checkLoss"
    /\ lives.last.hits = 2
    /\ lives.missedCuts = 2
    /\ lives.hintsUsed = 1
    /\ lives.last.result = 2

\* C24: on the board with hints, in every state reached by recordHintUsed
\* and checkIntersection, each circle in hintedCircles still owns a live
\* arc; a circle whose last live arc is cut leaves hintedCircles in that
\* same checkIntersection call.
C24_HintedCirclesHaveLiveArcs ==
    lives.phase = "board" =>
        \A i \in 1..Len(lives.hintedCircles) :
            \E k \in 1..Len(intersections) :
                intersections[k].circle = lives.hintedCircles[i]

\* The last live arc of a hinted circle has just been cut, other circles
\* still having arcs.
C24_Witness ==
    /\ lives.phase = "board"
    /\ lives.last.op = "checkIntersection"
    /\ lives.last.unhinted # {}
    /\ lives.hintedCircles = <<>>
    /\ Len(intersections) > 0

\* The part of its circle an arc covers, counter-clockwise from its start
\* to its end, in units of 0.0005 rad.
FineSpan(arc) ==
    LET s == (arc.endAngle - arc.startAngle) % FineTwoPi
    IN  IF s = 0 /\ arc.endAngle # arc.startAngle THEN FineTwoPi ELSE s

\* C23: when the board with circle removal is built, a merged arc is
\* dropped from the live arcs, and its circle from board.circles, exactly
\* when the arc covers its whole circle to within 0.001 rad; an arc that
\* covers less, a short arc across the seam of the angles included, is
\* kept together with its circle.
C23_RemovedIffWholeCircle ==
    removal.phase = "built" =>
        \A k \in 1..Len(removal.joined) :
            LET arc == removal.joined[k]
                whole == FineSpan(arc) + 2 >= FineTwoPi
                kept == \E i \in 1..Len(removal.intersections) :
                            removal.intersections[i] = arc
            IN  /\ whole <=> ~kept
                /\ whole <=> arc.circle \notin removal.circles

\* C25: GameDataManager runs its operations one after the other through
\* the dataLock chain: under any interleaving of loadData and addGameData
\* calls the body of a queued operation starts only after the operation
\* queued before it has finished completely, its awaited Firestore load or
\* save included, whether that succeeded, failed or was skipped offline;
\* the operations run in the order they were submitted.
C25_OperationsSerialised ==
    data.phase = "manager" =>
        \A i \in 1..Len(data.ops) : \A j \in 1..Len(data.ops) :
            (i < j /\ data.ops[j].status # "queued")
                => data.ops[i].status = "done"

\* Three operations were submitted while the first awaited Firestore; the
\* first failed, the second was skipped offline, the third is running.
C25_Witness ==
    /\ data.phase = "manager"
    /\ Len(data.ops) = 3
    /\ data.ops[1].outcome = "failed"
    /\ data.ops[2].outcome = "skipped"
    /\ data.ops[3].status \in {"loading", "saving"}

\* C26 as stated: StatsCollector.endGame is idempotent within one game:
\* after the first endGame call that follows startGame, a further endGame
\* call changes neither endTime nor duration and, in the variant with a
\* GameDataManager, submits no further record, until the next startGame.
C26_IdempotentUntilStartGame ==
    [][(/\ collector.phase = "collecting"
        /\ collector.sinceStart >= 1
        /\ collector'.sinceStart > collector.sinceStart)
        => /\ collector'.stats.endTime = collector.stats.endTime
           /\ collector'.stats.duration = collector.stats.duration
           /\ collector'.submitted = collector.submitted]_vars

\* C26, amended: the same until the stats record is next rebuilt, by
\* startGame or by reset.
C26_IdempotentUntilRebuilt ==
    [][(/\ collector.phase = "collecting"
        /\ collector.sinceFresh >= 1
        /\ collector'.sinceFresh > collector.sinceFresh)
        => /\ collector'.stats.endTime = collector.stats.endTime
           /\ collector'.stats.duration = collector.stats.duration
           /\ collector'.submitted = collector.submitted]_vars

\* endGame was called again, later than the first time, on the same stats
\* record: the end time is the first one and one record was submitted.
C26_Witness ==
    /\ collector.phase = "collecting"
    /\ collector.persisting
    /\ collector.sinceFresh >= 2
    /\ collector.stats.endTime < collector.now
    /\ collector.stats.duration = collector.stats.endTime
                                    - collector.stats.startTime
    /\ collector.submitted = 1

\* C27: for every Countdown.start(cb) call, cb is invoked at most once, and
\* only after three one-second ticks with no stop or start in between; if
\* start is called again or stop is called before the countdown is over,
\* the earlier callback is never invoked, because at most one interval
\* timer is active at any time.
C27_CallbackOnceAfterThreeTicks ==
    countdown.phase = "built" =>
        /\ Cardinality(countdown.timers) <= 1
        /\ \A k \in 1..countdown.calls :
            /\ countdown.invoked[k] <= 1
            /\ countdown.invoked[k] = 1 =>
                    countdown.elapsed[k] = 3 /\ ~countdown.cancelled[k]
            /\ countdown.cancelled[k] => countdown.invoked[k] = 0

\* A countdown was restarted after two ticks; the second one ran to its
\* end and its callback was invoked, the first callback never.
C27_Witness ==
    /\ countdown.phase = "built"
    /\ countdown.calls = 2
    /\ countdown.elapsed[1] = 2
    /\ countdown.cancelled[1]
    /\ countdown.invoked[1] = 0
    /\ countdown.invoked[2] = 1
    /\ countdown.timers = {}

\* C28: under any interleaving of AuthManager.login, continueAsGuest and
\* logout calls, each awaiting its provider, a login or guest attempt whose
\* provider result has success = false leaves isAuthenticated, currentUser,
\* isGuest, authToken and PlayerIdentity's user id exactly as they were
\* when that attempt's result arrived.
C28_FailedAttemptChangesNothing ==
    (/\ auth.phase = "manager"
     /\ auth.last.kind \in {"login", "continueAsGuest"}
     /\ ~auth.last.success)
        => auth.fields = auth.last.before

\* A login failed while a user was signed in with a token and another call
\* was still in flight: the signed-in user is still there.
C28_Witness ==
    /\ auth.phase = "manager"
    /\ auth.last.kind = "login"
    /\ ~auth.last.success
    /\ auth.fields.isAuthenticated
    /\ auth.fields.currentUser = "ann"
    /\ auth.fields.authToken = "token"
    /\ auth.fields.playerId = "ann"
    /\ auth.pending # {}

============================================================================
